---- MODULE Spec2Model ----
(***************************************************************************)
(* Model of Greyscale_Inverter/src/main.py: the ImageConverter widget, its *)
(* four state attributes, its event handlers, and the buffer transform of  *)
(* update_grayscale (padding strip, alpha drop, BT.601 luma, bit-depth     *)
(* quantization, conversion to bytes).                                     *)
(*                                                                         *)
(* Numbers.  The luma np.dot(arr, [0.299, 0.587, 0.114]) is carried in     *)
(* thousandths (299*R + 587*G + 114*B), which is exact.  The code computes *)
(* it in IEEE doubles; the rounding error of a double is below 1e-12 here, *)
(* while a luma that is not exactly half way between two steps is at least *)
(* 1/255000 away from it, so np.round gives the exact answer everywhere    *)
(* but at an exact half, where the sign of the rounding error decides.  At *)
(* an exact half the model allows both neighbours.                         *)
(***************************************************************************)
EXTENDS Integers, Sequences, FiniteSets, TLC

VARIABLES
    original_image,   \* self.original_image: a QImage, or None
    gray_image,       \* self.gray_image: a QImage, or None
    file_path,        \* self.file_path: a path, or NonePath
    bits,             \* self.bits
    handler,          \* the handler that ran last
    decoded,          \* the QImage its last QImage(file_path) built (img, line 115)
    notices,          \* the message boxes the last handler showed, in order
    transform,        \* what the last handler's last call of update_grayscale did
    arr,              \* the samples that call unpacked (its local arr at line 158)
    save_result,      \* what QImage.save returned in the last handler
    running           \* FALSE once an uncaught exception has aborted the process

vars == <<original_image, gray_image, file_path, bits, handler, decoded, notices,
          transform, arr, save_result, running>>

----------------------------------------------------------------------------
(* Bounds of the model.                                                    *)

MaxW == 2            \* widest image of the file fixture
MaxH == 2            \* tallest image of the file fixture
MaxUrls == 2         \* most URLs in one drop
MaxPath == 5         \* files 1..MaxPath can be opened in a session
NumChanLevels == 8   \* channel values per axis of the pixel grid

----------------------------------------------------------------------------
(* Values.                                                                 *)

Min(a, b) == IF a < b THEN a ELSE b

None ==
    [format |-> "None", width |-> 0, height |-> 0, bytesPerLine |-> 0, data |-> <<>>]

NullImage ==
    [format |-> "Invalid", width |-> 0, height |-> 0, bytesPerLine |-> 0, data |-> <<>>]

isNull(img) == img.format = "Invalid"

NonePath == -1       \* self.file_path = None
EmptyPath == 0       \* a falsy file_path: the button's argument, a cancelled dialog,
                     \* or the toLocalFile() of a URL that is no local file

SliderMin == 1
SliderMax == 8

FourByteFormats == {"RGB32", "ARGB32", "ARGB32_Premultiplied"}

LoadFailedBox == <<"warning", "Failed to load image.">>
NoGrayBox == <<"warning", "No grayscale image to save.">>
SavedBox == <<"information", "Image saved successfully">>

----------------------------------------------------------------------------
(* The files the decoder is given.  File 1 is no image; files 2 to        *)
(* NumFiles are images of every format and shape up to MaxW x MaxH; the    *)
(* files after them hold one RGB pixel each.                               *)

Formats == <<"Grayscale8", "RGB888", "RGB32", "ARGB32", "ARGB32_Premultiplied">>

Depth(format) ==
    IF format = "Grayscale8" THEN 8 ELSE IF format = "RGB888" THEN 24 ELSE 32

BytesPerLine(width, format) == ((width * Depth(format) + 31) \div 32) * 4

RampImage(format, width, height) ==
    LET bpl == BytesPerLine(width, format) IN
    [format |-> format, width |-> width, height |-> height, bytesPerLine |-> bpl,
     data |-> [i \in 1..(height * bpl) |-> (11 + (i - 1) * 37) % 256]]

PixelImage(p) ==
    [format |-> "RGB888", width |-> 1, height |-> 1, bytesPerLine |-> 4,
     data |-> <<p[1], p[2], p[3], 0>>]

SpecialPixels ==
    << <<255, 0, 0>>, <<0, 80, 110>>, <<0, 204, 68>>, <<5, 113, 41>>,
       <<85, 85, 85>>, <<255, 255, 255>> >>

BrokenPath == 1
NumRamps == Len(Formats) * MaxW * MaxH
NumFiles == 1 + NumRamps
Paths == 1..Min(MaxPath, NumFiles)
\* the files a drop can name: no image, a 1 x 1 and a 2 x 1 Grayscale8 image
DropPaths == 1..3

ChanVal(i) == (i * 255) \div (NumChanLevels - 1)
SpecialPaths == (NumFiles + 1)..(NumFiles + Len(SpecialPixels))
NumPixelFiles == Len(SpecialPixels) + NumChanLevels * NumChanLevels * NumChanLevels
PixelPaths == (NumFiles + 1)..(NumFiles + NumPixelFiles)

Decode(path) ==
    IF path = BrokenPath THEN NullImage
    ELSE IF path <= NumFiles THEN
        LET idx == path - 2 IN
        RampImage(Formats[((idx \div MaxW) % Len(Formats)) + 1],
                  (idx % MaxW) + 1,
                  (idx \div (MaxW * Len(Formats))) + 1)
    ELSE IF path \in SpecialPaths THEN PixelImage(SpecialPixels[path - NumFiles])
    ELSE
        LET idx == path - NumFiles - Len(SpecialPixels) - 1 IN
        PixelImage(<<ChanVal(idx \div (NumChanLevels * NumChanLevels)),
                     ChanVal((idx \div NumChanLevels) % NumChanLevels),
                     ChanVal(idx % NumChanLevels)>>)

----------------------------------------------------------------------------
(* numpy, as update_grayscale uses it.  A 2-D array is a sequence of rows, *)
(* a 3-D array a sequence of rows of pixels.                               *)

\* np.frombuffer(ptr, np.uint8).reshape((height, bytes_per_line))
Reshape2D(buf, height, bytes_per_line) ==
    [r \in 1..height |-> SubSeq(buf, (r - 1) * bytes_per_line + 1, r * bytes_per_line)]

\* a[:, :n]: a slice past the end of a row is clipped to the row, silently
SliceColumns(a, n) ==
    [r \in 1..Len(a) |-> SubSeq(a[r], 1, Min(n, Len(a[r])))]

Size2D(a) == IF Len(a) = 0 THEN 0 ELSE Len(a) * Len(a[1])

FlatAt(a, i) ==
    LET cols == Len(a[1]) IN a[((i - 1) \div cols) + 1][((i - 1) % cols) + 1]

\* a.reshape((height, width, channels)), defined when the sizes agree
Reshape3D(a, height, width, channels) ==
    [r \in 1..height |-> [c \in 1..width |-> [k \in 1..channels |->
        FlatAt(a, ((r - 1) * width + (c - 1)) * channels + k)]]]

\* a[..., 1:]: the last three bytes of each pixel instead of the first three
DropAlphaTail(a) ==
    [r \in 1..Len(a) |-> [c \in 1..Len(a[r]) |-> SubSeq(a[r][c], 2, 4)]]

\* a[..., :3]
DropAlpha(a) ==
    [r \in 1..Len(a) |-> [c \in 1..Len(a[r]) |-> SubSeq(a[r][c], 1, 3)]]

\* the pixels of a 3-D array in row-major order
RECURSIVE Concat(_)
Concat(rows) == IF rows = <<>> THEN <<>> ELSE Head(rows) \o Concat(Tail(rows))

----------------------------------------------------------------------------
(* Lines 137-158: the raw buffer to height x width x 3 samples.            *)

AssumedChannels(img) == IF img.format \in FourByteFormats THEN 4 ELSE 3

\* a row shorter than width * channels is read as the pixels that fit in it
UnpackLenient(img) ==
    LET height == img.height
        channels == AssumedChannels(img)
        a1 == SliceColumns(Reshape2D(img.data, height, img.bytesPerLine),
                           img.width * channels)
        fit == (IF height = 0 THEN 0 ELSE Len(a1[1])) \div channels
        a2 == Reshape3D(SliceColumns(a1, fit * channels), height, fit, channels)
    IN  [raised |-> FALSE, arr |-> IF channels = 4 THEN DropAlpha(a2) ELSE a2]

Unpack(img) ==
    LET width == img.width
        height == img.height
        bytes_per_line == img.bytesPerLine
        a0 == Reshape2D(img.data, height, bytes_per_line)
        channels == AssumedChannels(img)
        a1 == SliceColumns(a0, width * channels)
    IN  IF Size2D(a1) # height * width * channels
        THEN [raised |-> TRUE, arr |-> <<>>]
        ELSE LET a2 == Reshape3D(a1, height, width, channels) IN
             [raised |-> FALSE, arr |-> IF channels = 4 THEN DropAlpha(a2) ELSE a2]

----------------------------------------------------------------------------
(* Lines 160-166: luma and quantization of one pixel.                      *)

\* the weights applied to the channels in B, G, R order
Luma1000Swapped(p) == 114 * p[1] + 587 * p[2] + 299 * p[3]

\* np.dot(p, [0.299, 0.587, 0.114]), in thousandths
Luma1000(p) == 299 * p[1] + 587 * p[2] + 114 * p[3]

\* the step cut off instead of rounded
StepOutcomesTruncated(K, n) == {(K * n) \div 255000}

\* np.round(gray / 255 * n) for gray = K / 1000: the nearest integer, and
\* either neighbour at an exact half
StepOutcomes(K, n) ==
    LET q == (K * n) \div 255000
        r == (K * n) % 255000
    IN  IF 2 * r < 255000 THEN {q}
        ELSE IF 2 * r > 255000 THEN {q + 1}
        ELSE {q, q + 1}

\* the step scaled by 255 / levels instead of 255 / (levels - 1)
RescaleByLevels(step, n) == ((step * 255) \div (n + 1)) % 256

\* (step * (255 / n)).astype(np.uint8): the fraction is cut off.  For every
\* step of every depth the double product has the integer part of the exact
\* quotient, so the integer division is what the code stores.
Rescale(step, n) == ((step * 255) \div n) % 256

QuantOutcomes(p, n) == {Rescale(step, n) : step \in StepOutcomes(Luma1000(p), n)}

RECURSIVE GrayOutcomes(_, _)
GrayOutcomes(pixels, n) ==
    IF pixels = <<>> THEN {<<>>}
    ELSE {<<g>> \o rest : g \in QuantOutcomes(Head(pixels), n),
                          rest \in GrayOutcomes(Tail(pixels), n)}

\* QImage(gray_quant.data, shape[1], shape[0], strides[0], Format_Grayscale8):
\* the image shares the array's bytes; they are taken as they are then
GrayQImage(data, width, height) ==
    [format |-> "Grayscale8", width |-> width, height |-> height,
     bytesPerLine |-> width, data |-> data]

----------------------------------------------------------------------------
(* The widget's state as a record, so that one handler can call another.   *)
(* A handler yields the set of states it can end in.                       *)

State ==
    [original_image |-> original_image, gray_image |-> gray_image,
     file_path |-> file_path, bits |-> bits, handler |-> handler, decoded |-> decoded,
     notices |-> notices, transform |-> transform, arr |-> arr,
     save_result |-> save_result]

\* __init__, lines 88-91
InitState ==
    [original_image |-> None, gray_image |-> None, file_path |-> NonePath,
     bits |-> SliderMax, handler |-> "__init__", decoded |-> None, notices |-> <<>>,
     transform |-> "not_run", arr |-> <<>>, save_result |-> "none"]

\* entry of a handler: nothing shown, transformed or saved yet
Begin(s, name) ==
    [s EXCEPT !.handler = name, !.decoded = None, !.notices = <<>>, !.transform = "not_run",
              !.arr = <<>>, !.save_result = "none"]

\* an exception left update_grayscale and nothing catches it
Raised(s) == s.transform \in {"ValueError", "ZeroDivisionError"}

update_grayscale(s) ==
    LET img == s.original_image IN
    IF img = None THEN {s}
    ELSE
        LET u == Unpack(img) IN
        IF u.raised THEN {[s EXCEPT !.transform = "ValueError", !.arr = <<>>]}
        ELSE
            LET levels == 2 ^ s.bits IN
            IF levels - 1 = 0
            THEN {[s EXCEPT !.transform = "ZeroDivisionError", !.arr = u.arr]}
            ELSE {[s EXCEPT !.gray_image = GrayQImage(g, Len(u.arr[1]), Len(u.arr)),
                            !.transform = "done", !.arr = u.arr] :
                      g \in GrayOutcomes(Concat(u.arr), levels - 1)}

\* file_path stored before the decoder's result is looked at
load_image_early_assign(s, path, answer) ==
    LET chosen == IF path = EmptyPath THEN answer ELSE path IN
    IF chosen = EmptyPath THEN {s}
    ELSE
        LET img == Decode(chosen)
            t == [s EXCEPT !.decoded = img, !.file_path = chosen]
        IN  IF isNull(img)
            THEN {[t EXCEPT !.notices = Append(@, LoadFailedBox)]}
            ELSE update_grayscale([t EXCEPT !.original_image = img])

\* answer: what the file dialog returns if it is opened
load_image(s, path, answer) ==
    LET chosen == IF path = EmptyPath THEN answer ELSE path IN
    IF chosen = EmptyPath THEN {s}
    ELSE
        LET img == Decode(chosen) IN
        IF isNull(img)
        THEN {[s EXCEPT !.decoded = img, !.notices = Append(@, LoadFailedBox)]}
        ELSE update_grayscale([s EXCEPT !.decoded = img, !.file_path = chosen,
                                        !.original_image = img])

\* the loop of dropEvent over a set of states; an exception ends it
RECURSIVE dropLoop(_, _, _)
dropLoop(S, urls, answer) ==
    IF urls = <<>> THEN S
    ELSE dropLoop(UNION {IF Raised(s) THEN {s} ELSE load_image(s, Head(urls), answer) :
                             s \in S},
                  Tail(urls), answer)

dropEvent(s, urls, answer) == dropLoop({s}, urls, answer)

\* the slider's position taken as zero-based
update_bit_depth_off_by_one(s, value) ==
    LET t == [s EXCEPT !.bits = value - 1] IN
    IF t.original_image # None
    THEN update_grayscale(t)
    ELSE {t}

update_bit_depth(s, value) ==
    LET t == [s EXCEPT !.bits = value] IN
    IF t.original_image # None
    THEN update_grayscale(t)
    ELSE {t}

\* save_path: what the save dialog returns; ok: what QImage.save returns
save_grayscale(s, save_path, ok) ==
    IF s.gray_image = None THEN {[s EXCEPT !.notices = Append(@, NoGrayBox)]}
    ELSE IF save_path # EmptyPath
         THEN {[s EXCEPT !.save_result = IF ok THEN "written" ELSE "failed",
                         !.notices = Append(@, SavedBox)]}
         ELSE {s}

----------------------------------------------------------------------------
(* The events.                                                             *)

StateIs(t) ==
    /\ original_image = t.original_image
    /\ gray_image = t.gray_image
    /\ file_path = t.file_path
    /\ bits = t.bits
    /\ handler = t.handler
    /\ decoded = t.decoded
    /\ notices = t.notices
    /\ transform = t.transform
    /\ arr = t.arr
    /\ save_result = t.save_result

Commit(t) ==
    /\ original_image' = t.original_image
    /\ gray_image' = t.gray_image
    /\ file_path' = t.file_path
    /\ bits' = t.bits
    /\ handler' = t.handler
    /\ decoded' = t.decoded
    /\ notices' = t.notices
    /\ transform' = t.transform
    /\ arr' = t.arr
    /\ save_result' = t.save_result

\* An exception that leaves a slot either aborts the process (PyQt5 from
\* 5.5 on, no excepthook installed) or is printed and the event loop goes on.
Handle(outs) ==
    \E t \in outs :
        /\ Commit(t)
        /\ running' \in (IF Raised(t) THEN BOOLEAN ELSE {TRUE})

Init == StateIs(InitState) /\ running = TRUE

\* the Load Image button: clicked passes checked = False as file_path
LoadImage ==
    /\ running
    /\ \E answer \in Paths \cup {EmptyPath} :
           Handle(load_image(Begin(State, "load_image"), EmptyPath, answer))

DropEvent ==
    /\ running
    /\ \E n \in 1..MaxUrls : \E urls \in [1..n -> DropPaths \cup {EmptyPath}] :
           \E answer \in (IF \E i \in 1..n : urls[i] = EmptyPath
                          THEN DropPaths \cup {EmptyPath} ELSE {EmptyPath}) :
               Handle(dropEvent(Begin(State, "dropEvent"), urls, answer))

\* valueChanged of the slider: a value in its range other than the current one
UpdateBitDepth ==
    /\ running
    /\ \E value \in SliderMin..SliderMax :
           /\ value # bits
           /\ Handle(update_bit_depth(Begin(State, "update_bit_depth"), value))

SaveGrayscale ==
    /\ running
    /\ \E save_path \in DropPaths \cup {EmptyPath} : \E ok \in BOOLEAN :
           Handle(save_grayscale(Begin(State, "save_grayscale"), save_path, ok))

Next == LoadImage \/ DropEvent \/ UpdateBitDepth \/ SaveGrayscale

Spec == Init /\ [][Next]_vars

(* One image under the slider: the widget after load_image of any file    *)
(* that decodes, and then only slider moves.                               *)

InitImage ==
    \E path \in (2..NumFiles) \cup PixelPaths :
        \E t \in load_image(Begin(InitState, "load_image"), path, EmptyPath) :
            /\ StateIs(t)
            /\ running \in (IF Raised(t) THEN BOOLEAN ELSE {TRUE})

NextImage == UpdateBitDepth

SpecImage == InitImage /\ [][NextImage]_vars

----------------------------------------------------------------------------
(* The properties.  They speak of the luma as the specification defines    *)
(* it, and of the gray byte of pixel i (row-major) of the stored image.    *)

ClaimLuma1000(p) == 299 * p[1] + 587 * p[2] + 114 * p[3]

Abs(x) == IF x < 0 THEN -x ELSE x

\* the pixels update_grayscale unpacked, row-major
PixelsOf(a) == Concat(a)

\* distance, in thousandths, of gray byte g from the exact luma of pixel p
Err(g, p) == Abs(1000 * g - ClaimLuma1000(p))

\* num / den rounded to the nearest integer (den odd and num a multiple of
\* 255 leaves no exact half)
RoundNearest(num, den) == (2 * num + den) \div (2 * den)

Transformed == transform = "done" /\ gray_image # None

ShortStride(img) ==
    img # None /\ img.bytesPerLine < img.width * AssumedChannels(img)

\* the gray images update_grayscale can store for img at bit depth b
GrayImagesOf(img, b) ==
    {t.gray_image : t \in {u \in update_grayscale([InitState EXCEPT
                                   !.original_image = img, !.bits = b]) :
                               u.transform = "done"}}

\* C1: every gray byte is the reconstructed level step * 255 / (levels - 1)
\* rounded to the nearest integer, step being the rounded scaled luma.
C1_RoundedReconstruction ==
    Transformed =>
        \A i \in 1..Len(gray_image.data) :
            gray_image.data[i] \in
                {RoundNearest(step * 255, 2 ^ bits - 1) :
                     step \in StepOutcomes(ClaimLuma1000(PixelsOf(arr)[i]), 2 ^ bits - 1)}

\* C2: at 8 bits every gray byte is the luma rounded to an integer (at an
\* exact half, either neighbour), and pure red gives 76.
C2_EightBitsIsRoundedLuma ==
    (Transformed /\ bits = 8) =>
        \A i \in 1..Len(gray_image.data) :
            /\ Err(gray_image.data[i], PixelsOf(arr)[i]) <= 500
            /\ PixelsOf(arr)[i] = <<255, 0, 0>> => gray_image.data[i] = 76

C2_Witness ==
    /\ Transformed /\ bits = 8 /\ handler = "update_bit_depth"
    /\ arr = << << <<255, 0, 0>> >> >>
    /\ gray_image.data = <<76>>

\* C3 as claimed: a slider move to a greater bit depth never increases the
\* distance of any gray byte from the exact luma of its pixel.
C3_DeeperNeverWorse ==
    [][(handler' = "update_bit_depth" /\ Transformed /\ Transformed' /\ bits < bits')
        => \A i \in 1..Len(gray_image'.data) :
               Err(gray_image'.data[i], PixelsOf(arr')[i])
                   <= Err(gray_image.data[i], PixelsOf(arr')[i])]_vars

\* C3 as amended: the same, for a move to 8 bits and for moves among the
\* depths 1, 2 and 4.
C3_DeeperNeverWorseNested ==
    [][(/\ handler' = "update_bit_depth" /\ Transformed /\ Transformed'
        /\ bits < bits'
        /\ (bits' = 8 \/ {bits, bits'} \subseteq {1, 2, 4}))
        => \A i \in 1..Len(gray_image'.data) :
               Err(gray_image'.data[i], PixelsOf(arr')[i])
                   <= Err(gray_image.data[i], PixelsOf(arr')[i])]_vars

C3_Witness ==
    /\ Transformed /\ handler = "update_bit_depth" /\ bits = 8
    /\ arr = << << <<0, 80, 110>> >> >>
    /\ gray_image.data = <<59>>

\* C4: with a stride of at least width * channels the unpacking succeeds
\* and yields height * width * 3 samples, sample (r, c, k) being
\* raw[r * stride + c * channels + k] (here counted from 1).
C4_UnpackExact ==
    LET img == original_image
        channels == AssumedChannels(img)
    IN  (img # None /\ transform # "not_run" /\ img.bytesPerLine >= img.width * channels)
        => /\ transform = "done"
           /\ Len(arr) = img.height
           /\ \A r \in 1..img.height :
                  /\ Len(arr[r]) = img.width
                  /\ \A c \in 1..img.width :
                         /\ Len(arr[r][c]) = 3
                         /\ \A k \in 1..3 :
                                arr[r][c][k] =
                                    img.data[(r - 1) * img.bytesPerLine
                                             + (c - 1) * channels + k]

C4_Witness ==
    /\ Transformed
    /\ original_image.format = "RGB888"
    /\ original_image.width = 2 /\ original_image.height = 2
    /\ original_image.bytesPerLine = 8
    /\ arr[2][2] = SubSeq(original_image.data, 12, 14)

\* C5: a load_image whose file the decoder rejects shows the failure box,
\* runs no transform and leaves the four attributes as they were; in a
\* drop, the rejected file's box is the last one shown.
C5_RejectedLoadKeepsState ==
    [][(handler' \in {"load_image", "dropEvent"} /\ isNull(decoded'))
        => /\ notices' # <<>>
           /\ notices'[Len(notices')] = LoadFailedBox
           /\ handler' = "load_image" =>
                  /\ notices' = <<LoadFailedBox>>
                  /\ transform' = "not_run"
                  /\ UNCHANGED <<original_image, gray_image, file_path, bits>>]_vars

C5_Witness ==
    /\ handler = "load_image" /\ isNull(decoded)
    /\ notices = <<LoadFailedBox>>
    /\ original_image # None /\ gray_image # None /\ file_path # NonePath /\ bits # SliderMax

\* C6: a failed save shows a warning, and the success box is shown only
\* when the file was written.
C6_SaveFailureReported ==
    /\ (handler = "save_grayscale" /\ save_result = "failed")
           => \E i \in 1..Len(notices) : notices[i][1] = "warning"
    /\ (\E i \in 1..Len(notices) : notices[i] = SavedBox) => save_result = "written"

\* C7: a transform run on an image whose stride is below width * channels
\* raises, unpacks nothing and, in a handler that makes one call, leaves
\* the stored gray image as it was.
C7_ShortStrideRaises ==
    [][(transform' # "not_run" /\ ShortStride(original_image'))
        => /\ transform' = "ValueError"
           /\ arr' = <<>>
           /\ handler' # "dropEvent" => gray_image' = gray_image]_vars

C7_Witness ==
    /\ ShortStride(original_image)
    /\ transform = "ValueError"
    /\ handler = "load_image"
    /\ gray_image # None

\* C8: at 1 bit every gray byte is 0 or 255.
C8_OneBitIsBinary ==
    (Transformed /\ bits = 1) =>
        \A i \in 1..Len(gray_image.data) : gray_image.data[i] \in {0, 255}

C8_Witness ==
    /\ Transformed /\ bits = 1
    /\ arr = << << <<0, 204, 68>> >> >>
    /\ gray_image.data = <<255>>

\* C9: self.bits stays in 1..8, levels is at least 2 and no transform
\* divides by zero.
C9_BitsInRange ==
    /\ bits \in 1..8
    /\ 2 ^ bits >= 2
    /\ transform # "ZeroDivisionError"

C9_Witness ==
    /\ bits = 1 /\ handler = "update_bit_depth" /\ Transformed

\* C10: while the widget runs, a set original_image comes with the gray
\* image of that image at the current bits, and gray_image is None exactly
\* when original_image is.
C10_GrayIsCurrent ==
    running =>
        /\ original_image # None => gray_image \in GrayImagesOf(original_image, bits)
        /\ gray_image = None <=> original_image = None

====
